---- MODULE Spec2Model ----
(***************************************************************************)
(* The purchase-event producer loop of                                     *)
(* examples/bank_example/quix_platform_version/producer.py.                *)
(*                                                                         *)
(* One action per statement of the script: acquiring the producer, the     *)
(* while test, the generation of a record, topic.serialize, producer.      *)
(* produce, i += 1, sleep, and the context manager's exit.  The external   *)
(* calls (get_producer, __enter__, print, serialize, produce) either       *)
(* return or raise; the random draws (randint, choice, time_ns, uuid4) are *)
(* inputs of the actions.                                                  *)
(***************************************************************************)
EXTENDS Integers, Sequences, FiniteSets, TLC

\* ---------------------------------------------------------------- constants

\* while i < 10000
LoopBound == 10000
\* randint(0, 10)
MinAccount == 0
MaxAccount == 10
\* '0'*(10-len(str(account)))
IdWidth == 10
\* "Gold" if account >= 8 else "Silver"
GoldThreshold == 8
\* randint(-2500, -1)
MinAmount == -2500
MaxAmount == -1

\* the name given to app.topic(name=...)
TopicName == "qts__purchase_events"

retailers ==
  << "Billy Bob's Shop", "Tasty Pete's Burgers", "Mal-Wart",
     "Bikey Bikes", "Board Game Grove", "Food Emporium" >>

\* ------------------------------------------------------------------- bounds

\* number of distinct values uuid.uuid4() returns in the model; a call is
\* stateless (os.urandom), so it may return any of them, the last one included
MaxUuid == 2
\* number of loop iterations explored with the full data inputs (DataSpec)
MaxIter == 2

\* ------------------------------------------------------------ input samples

Accounts == MinAccount..MaxAccount
\* the two ends of randint(-2500, -1)
AmountSamples == {MinAmount, MaxAmount}
\* indexes into retailers drawn by choice(): first and last
SourceSamples == {1, Len(retailers)}
\* readings of time.time_ns(), in abstract ticks
TimeSamples == {1, 2}
Uuids == 1..MaxUuid

\* inputs of the long run (Spec): one Silver and one Gold account
CtlAccounts == {3, 9}
CtlAmounts == {MaxAmount}
CtlSources == {1}
CtlTimes == {1}
CtlUuids == {1}

\* ------------------------------------------------------------ pure helpers

Digits == << "0", "1", "2", "3", "4", "5", "6", "7", "8", "9" >>

\* str(n) for an int n >= 0, as a sequence of characters
RECURSIVE Str(_)
Str(n) == IF n < 10 THEN << Digits[n + 1] >>
          ELSE Str(n \div 10) \o << Digits[(n % 10) + 1] >>

\* c * k for a one-character string c (empty when k <= 0)
Repeat(c, k) == [j \in 1..k |-> c]

\* mutant: the padding sized for a one-digit account
PaddingOneDigit(acct) == Repeat("0", IdWidth - 1)

\* the padding '0'*(10-len(str(account))) of line 34
Padding(acct) == Repeat("0", IdWidth - Len(Str(acct)))

\* f"A{'0'*(10-len(str(account)))}{account}"
AccountId(acct) == << "A" >> \o Padding(acct) \o Str(acct)

\* mutant: the threshold taken as exclusive
AccountClassStrict(acct) == IF acct > GoldThreshold THEN "Gold" ELSE "Silver"

\* "Gold" if account >= 8 else "Silver"
AccountClass(acct) == IF acct >= GoldThreshold THEN "Gold" ELSE "Silver"

\* the dict literal of lines 35-41; id is the variable account_id
MakeValue(id, acct, amount, src, ts) ==
  [ account_id         |-> id,
    account_class      |-> AccountClass(acct),
    transaction_amount |-> amount,
    transaction_source |-> retailers[src],
    Timestamp          |-> ts ]

\* str(uuid.UUID): the canonical text of the n-th value uuid4() may return
UuidText ==
  << "00000000-0000-4000-8000-000000000001",
     "00000000-0000-4000-8000-000000000002",
     "00000000-0000-4000-8000-000000000003",
     "00000000-0000-4000-8000-000000000004" >>
UuidStr(n) == UuidText[n]

\* mutant: the merge written the other way round, the serializer's keys win
MergeHeadersExtraWins(extra, u) ==
  [k \in (DOMAIN extra) \cup {"uuid"} |->
     IF k \in DOMAIN extra THEN extra[k] ELSE u]

\* {**serializer.extra_headers, "uuid": u}: later keys win
MergeHeaders(extra, u) ==
  [k \in (DOMAIN extra) \cup {"uuid"} |-> IF k = "uuid" THEN u ELSE extra[k]]

\* serializer.extra_headers of the external QuixTimeseriesSerializer; the
\* second candidate carries a "uuid" key of its own
ExtraHeaderChoices ==
  { ("__Q_ModelKey" :> "TimeseriesData") @@ ("__Q_CodecId" :> "JT"),
    ("__Q_ModelKey" :> "TimeseriesData") @@ ("uuid" :> "from-serializer") }

\* topic.name of the Topic the external app.topic() returned: the registered
\* name, or that name behind a workspace prefix
TopicNameChoices == { TopicName, "myworkspace-qts__purchase_events" }

\* the library objects of the long run (Spec)
CtlExtraHeaders == { ("__Q_ModelKey" :> "TimeseriesData") @@ ("__Q_CodecId" :> "JT") }
CtlTopicNames == { TopicName }

\* the envelope topic.serialize returns: each part encoded, not passed through
SerializeEnvelope(key, val, headers) ==
  [ key     |-> << "key-bytes", key >>,
    value   |-> << "value-bytes", val >>,
    headers |-> << "header-list", headers >> ]

\* values of names that are not bound yet
NoValue ==
  [ account_id |-> << >>, account_class |-> "", transaction_amount |-> 0,
    transaction_source |-> "", Timestamp |-> 0 ]
NoEnvelope == [ key |-> << >>, value |-> << >>, headers |-> << >> ]
NoSerializeCall == [ key |-> << >>, value |-> NoValue, headers |-> << >> ]
NoProduceCall == [ topic |-> "", headers |-> << >>, key |-> << >>, value |-> << >> ]

\* ------------------------------------------------------------------- state

VARIABLES
  pc,             \* the statement about to run
  i,              \* the loop counter
  producer,       \* "none", "held" (inside the with block) or "released"
  account,        \* the last randint(0, 10)
  account_id,     \* the last formatted id
  value,          \* the last record
  serialized,     \* the last envelope returned by topic.serialize
  extra_headers,  \* serializer.extra_headers
  topic_name,     \* topic.name
  exc,            \* the exception raised: "none", "get_producer", "enter",
                  \* "print", "serialize" or "produce"
  acquires,       \* calls of __enter__
  releases,       \* calls of __exit__
  generated,      \* records built and printed (lines 33-42 completed)
  serCalls,       \* calls of topic.serialize
  prodCalls,      \* calls of producer.produce
  sleeps,         \* calls of sleep
  lastOp,         \* the last of generate / serialize / produce / sleep / ...
  uuidDraw,       \* the last value returned by uuid.uuid4()
  draws,          \* calls of uuid.uuid4()
  serArgs,        \* arguments of the last topic.serialize call
  sent            \* arguments of the last producer.produce call

callVars == << acquires, releases, generated, serCalls, prodCalls, sleeps >>
vars == << pc, i, producer, account, account_id, value, serialized,
           extra_headers, topic_name, exc, acquires, releases, generated,
           serCalls, prodCalls, sleeps, lastOp, uuidDraw, draws, serArgs,
           sent >>

\* the state after lines 1-29, for the given library objects
InitWith(extras, names) ==
  /\ pc = "with"
  /\ i = 0
  /\ producer = "none"
  /\ account = 0
  /\ account_id = << >>
  /\ value = NoValue
  /\ serialized = NoEnvelope
  /\ extra_headers \in extras
  /\ topic_name \in names
  /\ exc = "none"
  /\ acquires = 0
  /\ releases = 0
  /\ generated = 0
  /\ serCalls = 0
  /\ prodCalls = 0
  /\ sleeps = 0
  /\ lastOp = "none"
  /\ uuidDraw = 0
  /\ draws = 0
  /\ serArgs = NoSerializeCall
  /\ sent = NoProduceCall

Init == InitWith(CtlExtraHeaders, CtlTopicNames)
DataInit == InitWith(ExtraHeaderChoices, TopicNameChoices)

\* ----------------------------------------------------------------- actions

\* with app.get_producer() as producer: get_producer() and __enter__ return
Acquire ==
  /\ pc = "with"
  /\ pc' = "while"
  /\ producer' = "held"
  /\ acquires' = acquires + 1
  /\ lastOp' = "acquire"
  /\ UNCHANGED << i, account, account_id, value, serialized, extra_headers, topic_name,
                  exc, releases, generated, serCalls, prodCalls, sleeps,
                  uuidDraw, draws, serArgs, sent >>

\* line 31, app.get_producer() raises: no producer, __enter__ and __exit__
\* are not called, the script ends
GetProducerFail ==
  /\ pc = "with"
  /\ exc' = "get_producer"
  /\ pc' = "done"
  /\ UNCHANGED << i, producer, account, account_id, value, serialized,
                  extra_headers, topic_name, callVars, lastOp, uuidDraw, draws,
                  serArgs, sent >>

\* line 31, __enter__ raises: the with block is not entered and __exit__ is
\* not called, the script ends
EnterFail ==
  /\ pc = "with"
  /\ acquires' = acquires + 1
  /\ exc' = "enter"
  /\ lastOp' = "acquire"
  /\ pc' = "done"
  /\ UNCHANGED << i, producer, account, account_id, value, serialized,
                  extra_headers, topic_name, releases, generated, serCalls,
                  prodCalls, sleeps, uuidDraw, draws, serArgs, sent >>

\* mutant: the loop bound taken as inclusive
LoopConditionInclusive == i <= LoopBound

\* the loop condition i < 10000
LoopCondition == i < LoopBound

\* while i < 10000: the test holds
WhileEnter ==
  /\ pc = "while"
  /\ LoopCondition
  /\ pc' = "generate"
  /\ UNCHANGED << i, producer, account, account_id, value, serialized,
                  extra_headers, topic_name, exc, callVars, lastOp, uuidDraw, draws,
                  serArgs, sent >>

\* while i < 10000: the test fails, the with block is left normally
WhileExit ==
  /\ pc = "while"
  /\ ~LoopCondition
  /\ pc' = "exit"
  /\ UNCHANGED << i, producer, account, account_id, value, serialized,
                  extra_headers, topic_name, exc, callVars, lastOp, uuidDraw, draws,
                  serArgs, sent >>

\* mutant: the record is built but the serialize step is skipped, so the
\* envelope of the previous iteration is published
GenerateStale(acct, amount, src, ts) ==
  /\ pc = "generate"
  /\ account' = acct
  /\ account_id' = AccountId(acct)
  /\ value' = MakeValue(account_id', acct, amount, src, ts)
  /\ generated' = generated + 1
  /\ lastOp' = "generate"
  /\ pc' = IF generated = 0 THEN "serialize" ELSE "produce"
  /\ UNCHANGED << i, producer, serialized, extra_headers, topic_name, exc, acquires,
                  releases, serCalls, prodCalls, sleeps, uuidDraw, draws,
                  serArgs, sent >>

\* lines 33-42: draw the account, build account_id and value, print
Generate(acct, amount, src, ts) ==
  /\ pc = "generate"
  /\ account' = acct
  /\ account_id' = AccountId(acct)
  /\ value' = MakeValue(account_id', acct, amount, src, ts)
  /\ generated' = generated + 1
  /\ lastOp' = "generate"
  /\ pc' = "serialize"
  /\ UNCHANGED << i, producer, serialized, extra_headers, topic_name, exc, acquires,
                  releases, serCalls, prodCalls, sleeps, uuidDraw, draws,
                  serArgs, sent >>

\* mutant: no scoped acquisition, an exception leaves the script at once
RaiseTargetUnscoped == "done"

\* mutant: the failed call is retried
RaiseTargetRetry == "serialize"

\* where an exception raised inside the with block goes: to the producer's
\* __exit__, and only then out of the script
RaiseTarget == "exit"

\* lines 33-42, print raises (stdout cannot be written): the record is built,
\* the with block is left
PrintFail(acct, amount, src, ts) ==
  /\ pc = "generate"
  /\ account' = acct
  /\ account_id' = AccountId(acct)
  /\ value' = MakeValue(account_id', acct, amount, src, ts)
  /\ exc' = "print"
  /\ pc' = RaiseTarget
  /\ UNCHANGED << i, producer, serialized, extra_headers, topic_name,
                  callVars, lastOp, uuidDraw, draws, serArgs, sent >>

\* the arguments of the call of lines 44-48, u the value uuid4() returned
SerializeArgs(u) ==
  [ key     |-> account_id,
    value   |-> value,
    headers |-> MergeHeaders(extra_headers, UuidStr(u)) ]

\* lines 44-48, topic.serialize returns
Serialize(u) ==
  /\ pc = "serialize"
  /\ uuidDraw' = u
  /\ draws' = draws + 1
  /\ serArgs' = SerializeArgs(u)
  /\ serCalls' = serCalls + 1
  /\ serialized' = SerializeEnvelope(serArgs'.key, serArgs'.value, serArgs'.headers)
  /\ lastOp' = "serialize"
  /\ pc' = "produce"
  /\ UNCHANGED << i, producer, account, account_id, value, extra_headers, topic_name, exc,
                  acquires, releases, generated, prodCalls, sleeps, sent >>

\* lines 44-48, topic.serialize raises: the with block is left
SerializeFail(u) ==
  /\ pc = "serialize"
  /\ uuidDraw' = u
  /\ draws' = draws + 1
  /\ serArgs' = SerializeArgs(u)
  /\ serCalls' = serCalls + 1
  /\ exc' = "serialize"
  /\ lastOp' = "serialize"
  /\ pc' = RaiseTarget
  /\ UNCHANGED << i, producer, account, account_id, value, serialized,
                  extra_headers, topic_name, acquires, releases, generated, prodCalls,
                  sleeps, sent >>

\* mutant: the key is sent as generated, not as serialized
ProduceArgsRawKey ==
  [ topic   |-> topic_name,
    headers |-> serialized.headers,
    key     |-> account_id,
    value   |-> serialized.value ]

\* the arguments of the call of lines 49-54
ProduceArgs ==
  [ topic   |-> topic_name,
    headers |-> serialized.headers,
    key     |-> serialized.key,
    value   |-> serialized.value ]

\* lines 49-54, producer.produce returns
Produce ==
  /\ pc = "produce"
  /\ sent' = ProduceArgs
  /\ prodCalls' = prodCalls + 1
  /\ lastOp' = "produce"
  /\ pc' = "incr"
  /\ UNCHANGED << i, producer, account, account_id, value, serialized,
                  extra_headers, topic_name, exc, acquires, releases, generated, serCalls,
                  sleeps, uuidDraw, draws, serArgs >>

\* lines 49-54, producer.produce raises: the with block is left
ProduceFail ==
  /\ pc = "produce"
  /\ sent' = ProduceArgs
  /\ prodCalls' = prodCalls + 1
  /\ exc' = "produce"
  /\ lastOp' = "produce"
  /\ pc' = RaiseTarget
  /\ UNCHANGED << i, producer, account, account_id, value, serialized,
                  extra_headers, topic_name, acquires, releases, generated, serCalls,
                  sleeps, uuidDraw, draws, serArgs >>

\* i += 1
Incr ==
  /\ pc = "incr"
  /\ i' = i + 1
  /\ pc' = "sleep"
  /\ UNCHANGED << producer, account, account_id, value, serialized,
                  extra_headers, topic_name, exc, callVars, lastOp, uuidDraw, draws,
                  serArgs, sent >>

\* mutant: the delay is skipped after the last iteration
SleepBetween ==
  /\ pc = "sleep"
  /\ sleeps' = IF LoopCondition THEN sleeps + 1 ELSE sleeps
  /\ lastOp' = IF LoopCondition THEN "sleep" ELSE lastOp
  /\ pc' = "while"
  /\ UNCHANGED << i, producer, account, account_id, value, serialized,
                  extra_headers, topic_name, exc, acquires, releases, generated, serCalls,
                  prodCalls, uuidDraw, draws, serArgs, sent >>

\* sleep(random()): the duration in [0, 1) changes no state
Sleep ==
  /\ pc = "sleep"
  /\ sleeps' = sleeps + 1
  /\ lastOp' = "sleep"
  /\ pc' = "while"
  /\ UNCHANGED << i, producer, account, account_id, value, serialized,
                  extra_headers, topic_name, exc, acquires, releases, generated, serCalls,
                  prodCalls, uuidDraw, draws, serArgs, sent >>

\* the producer's __exit__, on the normal and on the exceptional way out;
\* an exception in flight then propagates and ends the script
Release ==
  /\ pc = "exit"
  /\ producer' = "released"
  /\ releases' = releases + 1
  /\ lastOp' = "release"
  /\ pc' = "done"
  /\ UNCHANGED << i, account, account_id, value, serialized, extra_headers, topic_name,
                  exc, acquires, generated, serCalls, prodCalls, sleeps,
                  uuidDraw, draws, serArgs, sent >>

\* ---------------------------------------------------------- specifications

\* the whole run of 10000 iterations, on the small inputs
Next ==
  \/ Acquire
  \/ GetProducerFail
  \/ EnterFail
  \/ WhileEnter
  \/ WhileExit
  \/ \E acct \in CtlAccounts, amount \in CtlAmounts, src \in CtlSources,
        ts \in CtlTimes : Generate(acct, amount, src, ts)
  \/ \E acct \in CtlAccounts, amount \in CtlAmounts, src \in CtlSources,
        ts \in CtlTimes : PrintFail(acct, amount, src, ts)
  \/ \E u \in CtlUuids : Serialize(u)
  \/ \E u \in CtlUuids : SerializeFail(u)
  \/ Produce
  \/ ProduceFail
  \/ Incr
  \/ Sleep
  \/ Release

Spec == Init /\ [][Next]_vars

\* every statement of the script runs to its end
FairSpec == Spec /\ WF_vars(Next)

\* the first MaxIter iterations, on the full inputs
DataNext ==
  \/ Acquire
  \/ GetProducerFail
  \/ EnterFail
  \/ (i < MaxIter /\ WhileEnter)
  \/ \E acct \in Accounts, amount \in AmountSamples, src \in SourceSamples,
        ts \in TimeSamples : Generate(acct, amount, src, ts)
  \/ \E acct \in Accounts, amount \in AmountSamples, src \in SourceSamples,
        ts \in TimeSamples : PrintFail(acct, amount, src, ts)
  \/ \E u \in Uuids : Serialize(u)
  \/ \E u \in Uuids : SerializeFail(u)
  \/ Produce
  \/ ProduceFail
  \/ Incr
  \/ Sleep
  \/ Release

DataSpec == DataInit /\ [][DataNext]_vars

\* ------------------------------------------------------------------ claims

\* reading an account_id back: the helpers of the statements below
IsDigit(c) == \E d \in 1..10 : Digits[d] = c
DigitVal(c) == (CHOOSE d \in 1..10 : Digits[d] = c) - 1
RECURSIVE ParseInt(_)
ParseInt(s) == IF Len(s) = 0 THEN 0
               ELSE 10 * ParseInt(SubSeq(s, 1, Len(s) - 1)) + DigitVal(s[Len(s)])
\* the decoded parts of a produce call and of an envelope
SentHeaders == sent.headers[2]
SentValue == sent.value[2]

\* C1 as stated: every run in which no serialize or produce call fails ends
\* with exactly 10000 events generated and 10000 publish attempts made.
C1_Original ==
  (pc = "done" /\ exc \notin {"serialize", "produce"})
     => (generated = LoopBound /\ prodCalls = LoopBound)

\* C1 as amended: every run ends; a run in which the producer was acquired
\* and nothing raised inside the with block ends with exactly 10000 events
\* generated and exactly 10000 publish attempts made, and at any moment there
\* is one publish attempt per generated event (the attempt for the newest
\* event may still be due).                                   (under FairSpec)
C1_Counts ==
  /\ prodCalls <= generated
  /\ generated <= prodCalls + 1
  /\ (exc = "none" /\ pc \in {"incr", "sleep", "while", "exit", "done"}
        => prodCalls = generated)
  /\ (pc = "done" /\ exc = "none"
        => generated = LoopBound /\ prodCalls = LoopBound /\ i = LoopBound)
C1_ExactlyLoopBound == []C1_Counts /\ <>(pc = "done")
C1_Witness ==
  pc = "done" /\ exc = "none" /\ generated = LoopBound /\ prodCalls = LoopBound

\* C2: the producer is acquired once, before the first iteration, and is
\* released once on every way out of the loop (bound reached, serialize
\* failed, produce failed, and print failed as well); no end state holds the
\* producer, also not the end states in which the loop was never entered
\* because get_producer() or __enter__ raised; producer.produce is called
\* only while the producer is held, never before acquisition or after
\* release.
C2_Scoped ==
  /\ (pc = "with" => producer = "none" /\ acquires = 0 /\ releases = 0
                     /\ generated = 0 /\ prodCalls = 0)
  /\ (pc \in {"while", "generate", "serialize", "produce", "incr", "sleep", "exit"}
        => producer = "held" /\ acquires = 1 /\ releases = 0)
  /\ (pc = "done" /\ exc \in {"none", "print", "serialize", "produce"}
        => producer = "released" /\ acquires = 1 /\ releases = 1)
  /\ (pc = "done" /\ exc \in {"get_producer", "enter"}
        => /\ producer = "none"
           /\ acquires = (IF exc = "enter" THEN 1 ELSE 0)
           /\ releases = 0
           /\ generated = 0
           /\ prodCalls = 0)
  /\ acquires <= 1
  /\ releases <= 1
  /\ pc \in {"with", "while", "generate", "serialize", "produce", "incr",
             "sleep", "exit", "done"}
C2_ProducerReleasedOnce ==
  /\ []C2_Scoped
  /\ [][prodCalls' # prodCalls => producer = "held" /\ producer' = "held"]_vars
  /\ [][producer = "released" => UNCHANGED vars]_vars
C2_Witness ==
  pc = "done" /\ exc = "produce" /\ producer = "released" /\ releases = 1
  /\ prodCalls = 2

\* C3: once topic.serialize or producer.produce has failed, no event is
\* generated, no serialize or produce call is made, i is not incremented and
\* no sleep happens; i counts the iterations completed before the failed one.
C3_AfterFailure ==
  exc \in {"serialize", "produce"} =>
                  /\ pc \in {"exit", "done"}
                  /\ i = generated - 1
                  /\ sleeps = i
                  /\ serCalls = generated
                  /\ prodCalls = IF exc = "produce" THEN generated ELSE generated - 1
C3_FailFast ==
  /\ []C3_AfterFailure
  /\ [][exc # "none" => /\ generated' = generated
                        /\ serCalls' = serCalls
                        /\ prodCalls' = prodCalls
                        /\ draws' = draws
                        /\ i' = i
                        /\ sleeps' = sleeps
                        /\ exc' = exc]_vars
C3_Witness ==
  pc = "done" /\ exc = "serialize" /\ i = 1 /\ generated = 2 /\ serCalls = 2
  /\ prodCalls = 1 /\ sleeps = 1

\* C4: the steps of an iteration run in the order generate, serialize,
\* publish, sleep: a publish attempt directly follows the serialize call on
\* the record of the same iteration, a sleep follows that iteration's publish
\* attempt, and a record is generated only after the previous iteration's
\* sleep.
C4_Sequential ==
  [][ /\ (serCalls' # serCalls =>
            lastOp = "generate" /\ generated = serCalls + 1
            /\ serArgs'.value = value)
      /\ (prodCalls' # prodCalls =>
            lastOp = "serialize" /\ serCalls = generated
            /\ prodCalls = generated - 1 /\ serArgs.value = value
            /\ sent'.value = << "value-bytes", value >>)
      /\ (sleeps' # sleeps =>
            lastOp = "produce" /\ prodCalls = generated
            /\ sleeps = generated - 1)
      /\ (generated' # generated =>
            lastOp \in {"acquire", "sleep"} /\ sleeps = generated
            /\ prodCalls = generated) ]_vars
C4_Witness ==
  pc = "incr" /\ lastOp = "produce" /\ generated = 2 /\ sleeps = 1
  /\ prodCalls = 2

\* C5 as stated: a failure-free run of N iterations sleeps N-1 times, and no
\* sleep follows the last publish attempt.
C5_Original ==
  (pc = "exit" /\ exc = "none") => (sleeps = prodCalls - 1 /\ lastOp # "sleep")

\* C5 as amended: a sleep follows every publish attempt that returned, the
\* last one included: a failure-free run of N iterations sleeps N times, the
\* last sleep being followed by the end of the loop; a failed call (print,
\* serialize, produce) is followed by no sleep.
C5_SleepAfterEveryPublish ==
  /\ (pc = "sleep" => sleeps = i - 1)
  /\ (pc # "sleep" => sleeps = i)
  /\ (pc \in {"exit", "done"} /\ exc = "none"
        => sleeps = prodCalls /\ sleeps = LoopBound)
  /\ (exc \in {"serialize", "produce"} => sleeps = generated - 1)
  /\ (exc = "print" => sleeps = generated)
  /\ (exc \in {"get_producer", "enter"} => sleeps = 0)
C5_Witness ==
  pc = "exit" /\ exc = "none" /\ lastOp = "sleep" /\ sleeps = LoopBound
  /\ prodCalls = LoopBound

\* C6: the headers handed to topic.serialize are the serializer's extra
\* headers plus a "uuid" entry: every other key keeps the serializer's
\* value, and "uuid" holds the identifier drawn in the same iteration, also
\* when the serializer has a "uuid" key of its own.
C6_HeadersMerged ==
  lastOp \in {"serialize", "produce"} =>
    /\ DOMAIN serArgs.headers = (DOMAIN extra_headers) \cup {"uuid"}
    /\ \A k \in (DOMAIN extra_headers) \ {"uuid"} :
         serArgs.headers[k] = extra_headers[k]
    /\ serArgs.headers["uuid"] = UuidStr(uuidDraw)
    /\ draws = generated
C6_Witness ==
  /\ lastOp = "produce"
  /\ "uuid" \in DOMAIN extra_headers
  /\ uuidDraw = 2
  /\ serArgs.headers["uuid"] = UuidStr(2)
  /\ serArgs.headers["uuid"] # extra_headers["uuid"]
  /\ SentHeaders = serArgs.headers

C8_AccountIdFormat ==
  value # NoValue =>
    /\ Len(account_id) = 11
    /\ account_id[1] = "A"
    /\ \A k \in 2..Len(account_id) : IsDigit(account_id[k])
    /\ ParseInt(Tail(account_id)) = account
    /\ account \in 0..10
    /\ value.account_id = account_id
C8_Witness ==
  /\ value # NoValue
  /\ account = 10
  /\ account_id = << "A", "0", "0", "0", "0", "0", "0", "0", "0", "1", "0" >>

\* C9: account_class is "Gold" exactly when the integer in the event's
\* account_id is at least 8 and "Silver" otherwise, so two events with the
\* same account_id have the same account_class.
C9_ClassFromAccountId ==
  value # NoValue =>
    /\ value.account_class \in {"Gold", "Silver"}
    /\ (value.account_class = "Gold" <=> ParseInt(Tail(value.account_id)) >= 8)
    /\ (prodCalls > 0 /\ SentValue.account_id = value.account_id
          => SentValue.account_class = value.account_class)
C9_Witness ==
  /\ prodCalls > 0
  /\ SentValue.account_id = AccountId(8)
  /\ SentValue.account_class = "Gold"
  /\ value.account_id = AccountId(8)
  /\ value.Timestamp # SentValue.Timestamp
  /\ value.account_class = "Gold"

\* C10: for every publish attempt, the key given to topic.serialize is the
\* account_id of the value given in the same call, and producer.produce gets
\* the key, value and headers of the envelope that call returned, for the
\* registered topic's name: nothing of another iteration is published.
C10_PublishedAsSerialized ==
  lastOp = "produce" =>
    /\ serArgs.value = value
    /\ serArgs.key = serArgs.value.account_id
    /\ serialized = SerializeEnvelope(serArgs.key, serArgs.value, serArgs.headers)
    /\ sent = [ topic |-> topic_name, headers |-> serialized.headers,
                key |-> serialized.key, value |-> serialized.value ]
    /\ sent.key = << "key-bytes", value.account_id >>
    /\ serCalls = generated
    /\ prodCalls = generated
C10_Witness ==
  /\ lastOp = "produce"
  /\ prodCalls = 2
  /\ account = 10
  /\ topic_name = "myworkspace-qts__purchase_events"
  /\ sent.topic = "myworkspace-qts__purchase_events"
  /\ sent.key = << "key-bytes", AccountId(10) >>

====
